---- MODULE Spec2Model ----
(***************************************************************************)
(* State-machine model of src/components/PlanetCanvas.tsx: the refs of the *)
(* PlanetCanvas component, its effect (mount / cleanup), the animation     *)
(* frame callback `animate` and the window event handlers.                 *)
(*                                                                         *)
(* Numbers are fixed point:                                                *)
(*   star depth z, opacity, twinkleSpeed, connection life and maxLife      *)
(*       are in 1/1000 (0.2 is 200, 4.0 is 4000, 0.04 is 40);              *)
(*   zoom and targetZoom are in 1/1000000 (1.0 is 1000000);                *)
(*   pixel coordinates are whole pixels; lookAt is in 1/1000 pixel;        *)
(*   a value of Math.random() is r/10000 for an integer r in 0..9999.     *)
(* Canvas drawing calls write no program state and are not modelled.       *)
(*                                                                         *)
(* The fixed-point life of a connection is exact decimal arithmetic.  The  *)
(* program adds 0.04 in IEEE-754 double precision; conn64 is one           *)
(* connection whose growing branch is computed in that arithmetic, to the  *)
(* last bit, under GrowSpec.                                               *)
(*                                                                         *)
(* Specifications: Spec interleaves frames with every event; LifeSpec and  *)
(* LifeFairSpec run frames alone for the length of a connection's life;    *)
(* DriftSpec runs them until a star that started a connection is recycled; *)
(* FillSpec runs them with a connection created in every frame that can.   *)
(*                                                                         *)
(* The star array holds 600..2500 stars.  The model keeps its length and   *)
(* the records of the stars at the indices in FollowIdx that lie inside    *)
(* the array; every random index the frame draws is one of those.          *)
(***************************************************************************)
EXTENDS Integers, Sequences, FiniteSets, TLC

(* ---------------------------------------------------------------- bounds *)
\* frames the full interleaving specification runs
MaxFrames == 2
\* input / resize / ref events the full interleaving specification delivers
MaxEvents == 2
\* frames the connection-lifetime specification runs
MaxLifeFrames == 125
\* frames of the connection-lifetime specification that may spawn a connection
LifeSpawnFrames == 2
\* frames the star-drift specification runs
MaxDriftFrames == 192
\* frames the star-drift specification runs before one may spawn a connection
FirstSpawnFrame == 38
\* frames of the star-drift specification that may spawn a connection
DriftSpawnFrames == 2
\* frames the list-filling specification runs
MaxFillFrames == 630

(* ------------------------------------------------------ program constants *)
driftSpeed == 2
numPoints == 1400
zoomSensitivity == 8000
Null == -1

(* ------------------------------------------------------------- arithmetic *)
Min(a, b) == IF a < b THEN a ELSE b

Max(a, b) == IF a > b THEN a ELSE b

Abs(a) == IF a < 0 THEN -a ELSE a

\* division rounding toward zero, b > 0
Trunc(a, b) == IF a >= 0 THEN a \div b ELSE -((-a) \div b)

\* the whole part of the square root of n, lo * lo <= n < (hi + 1) * (hi + 1)
RECURSIVE Sqrt(_, _, _)
Sqrt(n, lo, hi) ==
    IF lo >= hi THEN lo
    ELSE LET mid == (lo + hi + 1) \div 2
         IN  IF mid * mid <= n THEN Sqrt(n, mid, hi) ELSE Sqrt(n, lo, mid - 1)

\* Math.hypot(dx, dy) for arguments whose result is a whole number
Hypot(dx, dy) == Sqrt(dx * dx + dy * dy, 0, Abs(dx) + Abs(dy))

(* ------------------------------------------------------------ environment *)
\* container sizes (clientWidth, clientHeight) the browser reports
Surfaces == { <<100, 100>>, <<1000, 800>>, <<3000, 3000>> }

\* pointer positions of mouse and single-finger touch events
Pointers == { <<640, 360>> }

\* e.deltaY of wheel events
WheelDeltas == { -100, 9000, -9000 }

\* two-finger touches: the two touch points
TouchPairs == { << <<0, 0>>, <<0, 0>> >>,
                << <<10, 20>>, <<40, 60>> >>,
                << <<100, 100>>, <<700, 900>> >> }

AllEvents == {"resize", "mousemove", "wheel", "touchstart", "touchmove", "touchend"}

\* indices of the star array whose records the model keeps
FollowIdx == {0, 1, 599, 2499}

Followed(len) == {i \in FollowIdx : i < len}

\* Math.random() outcomes (r/10000) of one star generation:
\* rz depth, rx, ry position, ro opacity, rs twinkle magnitude, rsign its sign
StarDraws ==
    << [rz |-> 1000, rx |-> 5000, ry |-> 5000, ro |-> 9900, rs |-> 9990, rsign |-> 9999],
       [rz |-> 1050, rx |-> 5100, ry |-> 4900, ro |-> 5000, rs |-> 0,    rsign |-> 0],
       [rz |-> 0,    rx |-> 5000, ry |-> 5000, ro |-> 500,  rs |-> 3000, rsign |-> 9999],
       [rz |-> 6,    rx |-> 0,    ry |-> 9999, ro |-> 0,    rs |-> 5000, rsign |-> 5000],
       [rz |-> 9999, rx |-> 9999, ry |-> 0,    ro |-> 9999, rs |-> 1000, rsign |-> 0] >>

\* seeds of a star generation: the seed shifts the draws along the array
Seeds == {0}

\* the draws of the star at index i under generation seed s
DrawOf(i, s) == StarDraws[((s + Cardinality({j \in FollowIdx : j < i})) % Len(StarDraws)) + 1]

\* Math.random() outcomes (rx, ry) of the stars recycled in one frame
RecycleDraws == { <<0, 9999>> }

\* Math.random() outcomes for maxLife
MaxLifeDraws == {0, 5000, 9999}

\* the one drawn where the length of a connection's life plays no part
MidLifeDraws == {5000}

\* the draw of the longest life: maxLife 0.961 is passed at life 1.0, which
\* takes 25 growing, 47 holding and 51 fading steps to come back to 0
LongLifeDraws == {9025}

(* ------------------------------------------------------- double precision *)
\* A JavaScript number is an IEEE-754 double.  The doubles d with 0 <= d < 2
\* that are whole multiples of 2^-57 are kept exactly, as the pair << hi, lo >>
\* with d = (hi * 2^28 + lo) * 2^-57 and 0 <= lo < 2^28.  Every double from
\* 0.03125 up is such a multiple.
Limb == 2^28

Zero64 == << 0, 0 >>

One64 == << 2^29, 0 >>

\* the double written 0.04: 0x1.47AE147AE147Bp-5 = 5764607523034235 * 2^-57
Growth64 == << 21474836, 128849019 >>

\* a is below b
Less64(a, b) == a[1] < b[1] \/ (a[1] = b[1] /\ a[2] < b[2])

\* the distance between neighbouring doubles around hi * 2^-29, in 2^-57:
\* 53 significant bits
Spacing64(hi) ==
    IF hi >= 2^29 THEN 32
    ELSE IF hi >= 2^28 THEN 16
    ELSE IF hi >= 2^27 THEN 8
    ELSE IF hi >= 2^26 THEN 4
    ELSE IF hi >= 2^25 THEN 2
    ELSE 1

\* the double nearest to (hi * 2^28 + lo) * 2^-57, the even one of two
\* equally near
Round64(hi, lo) ==
    LET g == Spacing64(hi)
        rem == lo % g
        down == lo - rem
        up == rem * 2 > g \/ (rem * 2 = g /\ (down \div g) % 2 = 1)
        rounded == IF up THEN down + g ELSE down
    IN  << hi + rounded \div Limb, rounded % Limb >>

\* a + b as JavaScript computes it
Add64(a, b) ==
    LET lo == a[2] + b[2]
    IN  Round64(a[1] + b[1] + lo \div Limb, lo % Limb)

\* values of Math.random() * 0.4 + 0.6: the doubles written 0.6 and 0.8, the
\* largest double below 1, and seven binary fractions between
MaxLife64 ==
    { << 322122547, 53687088 >>,      \* 0.6 = 0x1.3333333333333p-1
      << 5 * 2^26, 0 >>,              \* 0.625
      << 11 * 2^25, 0 >>,             \* 0.6875
      << 3 * 2^27, 0 >>,              \* 0.75
      << 429496729, 161061280 >>,     \* 0.8 = 0x1.999999999999Ap-1
      << 13 * 2^25, 0 >>,             \* 0.8125
      << 7 * 2^26, 0 >>,              \* 0.875
      << 15 * 2^25, 0 >>,             \* 0.9375
      << 31 * 2^24, 0 >>,             \* 0.96875
      << 2^29 - 1, 2^28 - 16 >> }     \* 1 - 2^-53

\* no connection yet
NoConn64 == [ life |-> Zero64, maxLife |-> Zero64, state |-> "none", steps |-> 0 ]

(* ------------------------------------------------------------------ state *)
VARIABLES
    phase,          \* "constructed", "mounted" (effect ran), "unmounted" (cleanup ran)
    canvasRef,      \* canvasRef.current is an element (TRUE) or null (FALSE)
    containerRef,   \* containerRef.current is an element (TRUE) or null (FALSE)
    context2d,      \* canvas.getContext('2d') gives a context (TRUE) or null (FALSE)
    canvas,         \* the canvas element's width and height
    listeners,      \* window event types with a handler registered
    rafQueue,       \* ids of the animation frame requests not yet run or cancelled
    rafNext,        \* the id the next requestAnimationFrame returns
    requestRef,
    stars,          \* starsRef.current
    connections,    \* connectionsRef.current
    planetPoints,   \* planetPointsRef.current
    mouse,          \* mouseRef.current
    lookAt,         \* lookAtRef.current
    zoom,           \* zoomRef.current
    targetZoom,     \* targetZoomRef.current
    lastTouchDist,  \* lastTouchDistRef.current
    rotation,       \* rotationRef.current, in steps of 0.002
    connSeq,        \* history: number of connections created so far
    derefs,         \* history: star indices whose fields the last frame's connection loop read
    events,         \* history: number of events delivered so far
    conn64          \* one connection with life and maxLife kept as IEEE-754 doubles

vars == << phase, canvasRef, containerRef, context2d, canvas, listeners, rafQueue, rafNext,
           requestRef, stars, connections, planetPoints, mouse, lookAt, zoom,
           targetZoom, lastTouchDist, rotation, connSeq, derefs, events, conn64 >>

scene == << stars, connections, planetPoints, zoom, lookAt, rotation >>

Init ==
    /\ phase = "constructed"
    /\ canvasRef = TRUE
    /\ containerRef = TRUE
    /\ context2d = TRUE
    /\ canvas = [width |-> 300, height |-> 150]
    /\ listeners = {}
    /\ rafQueue = {}
    /\ rafNext = 1
    /\ requestRef = 0
    /\ stars = [length |-> 0, at |-> << >>]
    /\ connections = << >>
    /\ planetPoints = [length |-> 0, radius |-> 0]
    /\ mouse = [x |-> 0, y |-> 0]
    /\ lookAt = [x |-> 0, y |-> 0]
    /\ zoom = 1000000
    /\ targetZoom = 1000000
    /\ lastTouchDist = Null
    /\ rotation = 0
    /\ connSeq = 0
    /\ derefs = {}
    /\ conn64 = NoConn64
    /\ events = 0

(* ------------------------------------------------------------- generators *)
\* the count without its Math.min(2500, ...)
StarCountNoCap(width, height) == Max(600, (width * height) \div 350)

\* Math.min(2500, Math.max(600, Math.floor(area / 350)))
StarCount(width, height) == Min(2500, Max(600, (width * height) \div 350))

\* (Math.random() - 0.5) * extent * 1.5 * z, in whole pixels
Spread(r, extent, z) == Trunc(Trunc((r - 5000) * extent * 3, 20000) * z, 1000)

\* one iteration of the loop of initStars, with draws d
NewStar(d, width, height) ==
    LET z == Trunc(d.rz * 3800, 10000) + 200
    IN  [ x |-> Spread(d.rx, width, z),
          y |-> Spread(d.ry, height, z),
          z |-> z,
          opacity |-> Trunc(d.ro, 10),
          twinkleSpeed |-> (Trunc(d.rs * 10, 10000) + 2) * (IF d.rsign > 5000 THEN 1 ELSE -1) ]

initStars(width, height, seed) ==
    LET starCount == StarCount(width, height)
    IN  [ length |-> starCount,
          at |-> [i \in Followed(starCount) |-> NewStar(DrawOf(i, seed), width, height)] ]

\* a generator whose point count follows the surface
initPlanetBySize(width, height) ==
    [ length |-> Min(numPoints, Min(width, height) * 10), radius |-> Min(width, height) * 3 ]

\* 1400 points on the sphere of radius minDim * 0.30 (radius in 1/10 pixel)
initPlanet(width, height) ==
    [ length |-> numPoints, radius |-> Min(width, height) * 3 ]

(* ------------------------------------------------- effect: mount, cleanup *)
\* handleResize without `connectionsRef.current = []`
handleResizeKeepsConnections(size, seed) ==
    IF canvasRef /\ containerRef
    THEN /\ canvas' = [width |-> size[1], height |-> size[2]]
         /\ mouse' = [x |-> size[1] \div 2, y |-> size[2] \div 2]
         /\ stars' = initStars(size[1], size[2], seed)
         /\ connections' = connections
         /\ planetPoints' = initPlanet(size[1], size[2])
    ELSE UNCHANGED << canvas, mouse, stars, connections, planetPoints >>

\* handleResize without the test of the two refs
handleResizeUnguarded(size, seed) ==
    /\ canvas' = [width |-> size[1], height |-> size[2]]
    /\ mouse' = [x |-> size[1] \div 2, y |-> size[2] \div 2]
    /\ stars' = initStars(size[1], size[2], seed)
    /\ connections' = << >>
    /\ planetPoints' = initPlanet(size[1], size[2])

\* handleResize, given the container's client size and the generation seed
handleResize(size, seed) ==
    IF canvasRef /\ containerRef
    THEN /\ canvas' = [width |-> size[1], height |-> size[2]]
         /\ mouse' = [x |-> size[1] \div 2, y |-> size[2] \div 2]
         /\ stars' = initStars(size[1], size[2], seed)
         /\ connections' = << >>
         /\ planetPoints' = initPlanet(size[1], size[2])
    ELSE UNCHANGED << canvas, mouse, stars, connections, planetPoints >>

\* a frame request whose identifier is not stored in requestRef
RequestFrameUnstored(pending) ==
    /\ rafQueue' = pending \cup {rafNext}
    /\ rafNext' = rafNext + 1
    /\ UNCHANGED requestRef

\* requestRef.current = requestAnimationFrame(animate), pending being the
\* requests outstanding when it is called
RequestFrame(pending) ==
    /\ requestRef' = rafNext
    /\ rafQueue' = pending \cup {rafNext}
    /\ rafNext' = rafNext + 1

\* the effect body: handleResize(), the six addEventListener calls, the first
\* requestAnimationFrame.  React attaches the refs before it runs an effect.
Mount ==
    /\ phase = "constructed"
    /\ canvasRef /\ containerRef
    /\ \E size \in Surfaces, seed \in Seeds : handleResize(size, seed)
    /\ listeners' = listeners \cup AllEvents
    /\ RequestFrame(rafQueue)
    /\ phase' = "mounted"
    /\ derefs' = {}
    /\ UNCHANGED << canvasRef, containerRef, context2d, lookAt, zoom, targetZoom,
                    lastTouchDist, rotation, connSeq, events, conn64 >>

\* the cleanup without its cancelAnimationFrame call
UnmountKeepsFrame ==
    /\ phase = "mounted"
    /\ events < MaxEvents
    /\ events' = events + 1
    /\ listeners' = listeners \ AllEvents
    /\ phase' = "unmounted"
    /\ derefs' = {}
    /\ UNCHANGED << canvasRef, containerRef, context2d, canvas, rafQueue, rafNext,
                    requestRef, stars, connections, planetPoints, mouse, lookAt,
                    zoom, targetZoom, lastTouchDist, rotation, connSeq, conn64 >>

\* the effect's cleanup: six removeEventListener calls, cancelAnimationFrame
Unmount ==
    /\ phase = "mounted"
    /\ events < MaxEvents
    /\ events' = events + 1
    /\ listeners' = listeners \ AllEvents
    /\ rafQueue' = rafQueue \ {requestRef}
    /\ phase' = "unmounted"
    /\ derefs' = {}
    /\ UNCHANGED << canvasRef, containerRef, context2d, canvas, rafNext,
                    requestRef, stars, connections, planetPoints, mouse, lookAt,
                    zoom, targetZoom, lastTouchDist, rotation, connSeq, conn64 >>

(* --------------------------------------------------------- event handlers *)
\* bookkeeping of a delivered event
Delivered(type) ==
    /\ type \in listeners
    /\ events < MaxEvents
    /\ events' = events + 1
    /\ derefs' = {}

Resize ==
    /\ Delivered("resize")
    /\ \E size \in Surfaces, seed \in Seeds : handleResize(size, seed)
    /\ UNCHANGED << phase, canvasRef, containerRef, context2d, listeners, rafQueue, rafNext,
                    requestRef, lookAt, zoom, targetZoom, lastTouchDist, rotation,
                    connSeq, conn64 >>

\* the clamp without its Math.max(0.5, ...)
ClampZoomNoFloor(z) == Min(5000000, z)

\* Math.max(0.5, Math.min(5.0, targetZoom + delta))
ClampZoom(z) == Max(500000, Min(5000000, z))

handleMouseMove(p) ==
    /\ mouse' = [x |-> p[1], y |-> p[2]]
    /\ UNCHANGED << targetZoom, lastTouchDist, scene >>

\* a wheel handler with delta = e.deltaY * 0.001, the sign dropped
handleWheelInverted(deltaY) ==
    /\ targetZoom' = ClampZoom(targetZoom + deltaY * 1000)
    /\ UNCHANGED << mouse, lastTouchDist, scene >>

\* a wheel handler that also snaps the smoothed zoom to the target
handleWheelSnapsZoom(deltaY) ==
    /\ targetZoom' = ClampZoom(targetZoom + (-deltaY) * 1000)
    /\ zoom' = targetZoom'
    /\ UNCHANGED << mouse, lastTouchDist, stars, connections, planetPoints,
                    lookAt, rotation >>

handleWheel(deltaY) ==
    /\ targetZoom' = ClampZoom(targetZoom + (-deltaY) * 1000)
    /\ UNCHANGED << mouse, lastTouchDist, scene >>

\* Math.hypot(t1.clientX - t2.clientX, t1.clientY - t2.clientY)
TouchDist(touches) ==
    Hypot(touches[1][1] - touches[2][1], touches[1][2] - touches[2][2])

handleTouchStart(touches) ==
    IF Len(touches) = 1
    THEN /\ mouse' = [x |-> touches[1][1], y |-> touches[1][2]]
         /\ UNCHANGED << targetZoom, lastTouchDist, scene >>
    ELSE IF Len(touches) = 2
    THEN /\ lastTouchDist' = TouchDist(touches)
         /\ UNCHANGED << mouse, targetZoom, scene >>
    ELSE UNCHANGED << mouse, targetZoom, lastTouchDist, scene >>

\* the touch-move handler testing the recorded distance for truthiness
handleTouchMoveTruthy(touches) ==
    IF Len(touches) = 1
    THEN /\ mouse' = [x |-> touches[1][1], y |-> touches[1][2]]
         /\ UNCHANGED << targetZoom, lastTouchDist, scene >>
    ELSE IF Len(touches) = 2 /\ lastTouchDist # Null /\ lastTouchDist # 0
    THEN LET dist == TouchDist(touches)
             deltaDist == dist - lastTouchDist
         IN  /\ targetZoom' = ClampZoom(targetZoom + deltaDist * zoomSensitivity)
             /\ lastTouchDist' = dist
             /\ UNCHANGED << mouse, scene >>
    ELSE UNCHANGED << mouse, targetZoom, lastTouchDist, scene >>

handleTouchMove(touches) ==
    IF Len(touches) = 1
    THEN /\ mouse' = [x |-> touches[1][1], y |-> touches[1][2]]
         /\ UNCHANGED << targetZoom, lastTouchDist, scene >>
    ELSE IF Len(touches) = 2 /\ lastTouchDist # Null
    THEN LET dist == TouchDist(touches)
             deltaDist == dist - lastTouchDist
         IN  /\ targetZoom' = ClampZoom(targetZoom + deltaDist * zoomSensitivity)
             /\ lastTouchDist' = dist
             /\ UNCHANGED << mouse, scene >>
    ELSE UNCHANGED << mouse, targetZoom, lastTouchDist, scene >>

handleTouchEnd ==
    /\ lastTouchDist' = Null
    /\ UNCHANGED << mouse, targetZoom, scene >>

\* e.touches of the touch events delivered: one, two or three points
Touches ==
    { << p >> : p \in Pointers } \cup TouchPairs
        \cup { << <<0, 0>>, <<30, 40>>, <<60, 80>> >> }

\* what lies outside the component's refs stays as it is while a handler runs
InputFrame ==
    UNCHANGED << phase, canvasRef, containerRef, context2d, canvas, listeners,
                 rafQueue, rafNext, requestRef, connSeq, conn64 >>

MouseMove ==
    /\ Delivered("mousemove")
    /\ \E p \in Pointers : handleMouseMove(p)
    /\ InputFrame

Wheel ==
    /\ Delivered("wheel")
    /\ \E deltaY \in WheelDeltas : handleWheel(deltaY)
    /\ InputFrame

TouchStart ==
    /\ Delivered("touchstart")
    /\ \E touches \in Touches : handleTouchStart(touches)
    /\ InputFrame

TouchMove ==
    /\ Delivered("touchmove")
    /\ \E touches \in Touches : handleTouchMove(touches)
    /\ InputFrame

TouchEnd ==
    /\ Delivered("touchend")
    /\ handleTouchEnd
    /\ InputFrame

\* what the page can make of the two element refs and of the 2D context:
\* all present, both refs detached (React detaches them in one commit), or
\* no 2D context
SurfaceStates ==
    { << TRUE, TRUE, TRUE >>, << FALSE, FALSE, TRUE >>, << TRUE, TRUE, FALSE >> }

\* React detaches or attaches an element ref, or the browser withdraws or
\* grants the 2D context
RefChange ==
    /\ phase = "mounted"
    /\ events < MaxEvents
    /\ events' = events + 1
    /\ derefs' = {}
    /\ \E sf \in SurfaceStates :
          /\ sf # << canvasRef, containerRef, context2d >>
          /\ canvasRef' = sf[1]
          /\ containerRef' = sf[2]
          /\ context2d' = sf[3]
    /\ UNCHANGED << phase, canvas, listeners, rafQueue, rafNext, requestRef,
                    stars, connections, planetPoints, mouse, lookAt, zoom,
                    targetZoom, lastTouchDist, rotation, connSeq, conn64 >>

(* ------------------------------------------------------ animate: the frame *)
\* the smoothing with the factor 1.1
SmoothZoomOvershoots(z, target) == z + Trunc((target - z) * 11, 10)

\* zoomRef.current += (targetZoomRef.current - zoomRef.current) * 0.1
SmoothZoom(z, target) == z + Trunc(target - z, 10)

\* lookAtRef.current lerped by 0.05 toward (mouse - centre) * 0.05,
\* the centre moved up by a tenth of the height on a portrait canvas
SmoothLookAt(look, m, cv) ==
    LET isPortrait == cv.height > cv.width
        targetLookX == m.x * 50 - cv.width * 25
        targetLookY == m.y * 50 - cv.height * 25 + (IF isPortrait THEN cv.height * 5 ELSE 0)
    IN  [ x |-> look.x + Trunc(targetLookX - look.x, 20),
          y |-> look.y + Trunc(targetLookY - look.y, 20) ]

\* the drift with the recycling test written `star.z < 0.2`
DriftStarStrict(star, cv, rec) ==
    LET z1 == star.z - driftSpeed
    IN  IF z1 < 200
        THEN [ star EXCEPT !.z = 4000,
                           !.x = Spread(rec[1], cv.width, 4000),
                           !.y = Spread(rec[2], cv.height, 4000),
                           !.opacity = 0 ]
        ELSE [ star EXCEPT !.z = z1 ]

\* the body of the first stars.forEach: drift, and recycling at z <= 0.2
DriftStar(star, cv, rec) ==
    LET z1 == star.z - driftSpeed
    IN  IF z1 <= 200
        THEN [ star EXCEPT !.z = 4000,
                           !.x = Spread(rec[1], cv.width, 4000),
                           !.y = Spread(rec[2], cv.height, 4000),
                           !.opacity = 0 ]
        ELSE [ star EXCEPT !.z = z1 ]

DriftStars(ss, cv, rec) ==
    [ ss EXCEPT !.at = [i \in DOMAIN ss.at |-> DriftStar(ss.at[i], cv, rec)] ]

\* stars[idx] is a star and not undefined
Exists(ss, idx) == idx >= 0 /\ idx < ss.length

\* the candidate loop of the spawn step: the index kept in bestIdx after the
\* draws cands[k..], -1 when none qualified; bestDist -1 stands for Infinity
RECURSIVE ScanCandidates(_, _, _, _, _, _)
ScanCandidates(ss, startIdx, cands, k, bestDist, bestIdx) ==
    IF k > Len(cands)
    THEN bestIdx
    ELSE LET checkIdx == cands[k]
             startStar == ss.at[startIdx]
             s2 == ss.at[checkIdx]
             dx == startStar.x - s2.x
             dy == startStar.y - s2.y
             dist == dx * dx + dy * dy
         IN  IF checkIdx = startIdx \/ ~Exists(ss, checkIdx)
             THEN ScanCandidates(ss, startIdx, cands, k + 1, bestDist, bestIdx)
             ELSE IF /\ dist < 50 * startStar.z
                     /\ (bestDist = -1 \/ dist < bestDist)
                     /\ Abs(startStar.z - s2.z) < 500
             THEN ScanCandidates(ss, startIdx, cands, k + 1, dist, checkIdx)
             ELSE ScanCandidates(ss, startIdx, cands, k + 1, bestDist, bestIdx)

\* the spawn step without the depth test on the start star
SpawnConnectionAnyDepth(ss, conns, d, seq) ==
    IF ss.length > 0 /\ d.gate < 300
    THEN LET bestIdx == ScanCandidates(ss, d.startIdx, d.cands, 1, -1, -1)
         IN  IF Exists(ss, d.startIdx) /\ bestIdx # -1
             THEN Append(conns, [ startIdx |-> d.startIdx,
                                  endIdx |-> bestIdx,
                                  life |-> 0,
                                  state |-> "growing",
                                  maxLife |-> Trunc(d.rmax * 400, 10000) + 600,
                                  id |-> seq + 1 ])
             ELSE conns
    ELSE conns

\* the spawn step under draws d: gate for Math.random() < 0.03, startIdx,
\* the candidate indices in the order first drawn, rmax for maxLife
SpawnConnection(ss, conns, d, seq) ==
    IF ss.length > 0 /\ d.gate < 300
    THEN LET startStar == ss.at[d.startIdx]
             bestIdx == ScanCandidates(ss, d.startIdx, d.cands, 1, -1, -1)
         IN  IF Exists(ss, d.startIdx) /\ startStar.z < 3000 /\ startStar.z > 500
                    /\ bestIdx # -1
             THEN Append(conns, [ startIdx |-> d.startIdx,
                                  endIdx |-> bestIdx,
                                  life |-> 0,
                                  state |-> "growing",
                                  maxLife |-> Trunc(d.rmax * 400, 10000) + 600,
                                  id |-> seq + 1 ])
             ELSE conns
    ELSE conns

\* the update with a fading branch that takes nothing off life
StepConnNoFade(conn) ==
    IF conn.state = "growing"
    THEN LET life == conn.life + 40
         IN  [ conn EXCEPT !.life = life,
                           !.state = IF life >= conn.maxLife THEN "holding" ELSE "growing" ]
    ELSE IF conn.state = "holding"
    THEN LET life == conn.life - 5
         IN  [ conn EXCEPT !.life = life,
                           !.state = IF life * 10 < conn.maxLife * 8 THEN "fading" ELSE "holding" ]
    ELSE conn

\* the update with a fading branch as slow as the holding branch
StepConnSlowFade(conn) ==
    IF conn.state = "growing"
    THEN LET life == conn.life + 40
         IN  [ conn EXCEPT !.life = life,
                           !.state = IF life >= conn.maxLife THEN "holding" ELSE "growing" ]
    ELSE IF conn.state = "holding"
    THEN LET life == conn.life - 5
         IN  [ conn EXCEPT !.life = life,
                           !.state = IF life * 10 < conn.maxLife * 8 THEN "fading" ELSE "holding" ]
    ELSE [ conn EXCEPT !.life = conn.life - 5 ]

\* the update leaving "growing" only once life is above maxLife
StepConnAbove(conn) ==
    IF conn.state = "growing"
    THEN LET life == conn.life + 40
         IN  [ conn EXCEPT !.life = life,
                           !.state = IF life > conn.maxLife THEN "holding" ELSE "growing" ]
    ELSE IF conn.state = "holding"
    THEN LET life == conn.life - 5
         IN  [ conn EXCEPT !.life = life,
                           !.state = IF life * 10 < conn.maxLife * 8 THEN "fading" ELSE "holding" ]
    ELSE [ conn EXCEPT !.life = conn.life - 15 ]

\* the update with the holding branch falling back to "growing"
StepConnRegrows(conn) ==
    IF conn.state = "growing"
    THEN LET life == conn.life + 40
         IN  [ conn EXCEPT !.life = life,
                           !.state = IF life >= conn.maxLife THEN "holding" ELSE "growing" ]
    ELSE IF conn.state = "holding"
    THEN LET life == conn.life - 5
         IN  [ conn EXCEPT !.life = life,
                           !.state = IF life * 10 < conn.maxLife * 8 THEN "growing" ELSE "holding" ]
    ELSE [ conn EXCEPT !.life = conn.life - 15 ]

\* the life and state update of one connection
StepConn(conn) ==
    IF conn.state = "growing"
    THEN LET life == conn.life + 40
         IN  [ conn EXCEPT !.life = life,
                           !.state = IF life >= conn.maxLife THEN "holding" ELSE "growing" ]
    ELSE IF conn.state = "holding"
    THEN LET life == conn.life - 5
         IN  [ conn EXCEPT !.life = life,
                           !.state = IF life * 10 < conn.maxLife * 8 THEN "fading" ELSE "holding" ]
    ELSE [ conn EXCEPT !.life = conn.life - 15 ]

\* connectionsRef.current.splice(i, 1), i counted from 1
Splice(conns, i) == SubSeq(conns, 1, i - 1) \o SubSeq(conns, i + 1, Len(conns))

\* a connection whose life is above 0 keeps its place when both stars exist
KeepConn(ss, conn) == Exists(ss, conn.startIdx) /\ Exists(ss, conn.endIdx)

\* the loop going on two places below a removed connection instead of one
RECURSIVE ConnectionLoopSkips(_, _, _, _)
ConnectionLoopSkips(ss, conns, i, read) ==
    IF i < 1
    THEN [ list |-> conns, read |-> read ]
    ELSE LET conn == StepConn(conns[i])
         IN  IF conn.life <= 0
             THEN ConnectionLoopSkips(ss, Splice(conns, i), i - 2, read)
             ELSE IF ~KeepConn(ss, conn)
             THEN ConnectionLoopSkips(ss, Splice(conns, i), i - 2, read)
             ELSE ConnectionLoopSkips(ss, [conns EXCEPT ![i] = conn], i - 1,
                                      read \cup {conn.startIdx, conn.endIdx})

\* the connection loop without the splice of a connection whose life is over
RECURSIVE ConnectionLoopKeeps(_, _, _, _)
ConnectionLoopKeeps(ss, conns, i, read) ==
    IF i < 1
    THEN [ list |-> conns, read |-> read ]
    ELSE IF i = 1
    THEN LET conn == StepConn(conns[1])
         IN  IF conn.life > 0 /\ ~KeepConn(ss, conn)
             THEN [ list |-> Splice(conns, 1), read |-> read ]
             ELSE [ list |-> [conns EXCEPT ![1] = conn],
                    read |-> read \cup {conn.startIdx, conn.endIdx} ]
    ELSE LET mid == i \div 2
             upper == ConnectionLoopKeeps(ss, SubSeq(conns, mid + 1, i), i - mid, {})
             lower == ConnectionLoopKeeps(ss, SubSeq(conns, 1, mid), mid, {})
         IN  [ list |-> lower.list \o upper.list \o SubSeq(conns, i + 1, Len(conns)),
               read |-> read \cup upper.read \cup lower.read ]

\* the connection loop from index i down to the first: the list it leaves,
\* and the star indices whose fields it read.  The body at an index writes
\* that connection alone, and its splice moves only the connections above
\* it, which the loop has visited already: the loop over i..1 is the loop
\* over the upper indices followed by the loop over the lower ones, each on
\* its own part of the list.
RECURSIVE ConnectionLoop(_, _, _, _)
ConnectionLoop(ss, conns, i, read) ==
    IF i < 1
    THEN [ list |-> conns, read |-> read ]
    ELSE IF i = 1
    THEN LET conn == StepConn(conns[1])
         IN  IF conn.life <= 0
             THEN [ list |-> Splice(conns, 1), read |-> read ]
             ELSE IF ~KeepConn(ss, conn)
             THEN [ list |-> Splice(conns, 1), read |-> read ]
             ELSE [ list |-> [conns EXCEPT ![1] = conn],
                    read |-> read \cup {conn.startIdx, conn.endIdx} ]
    ELSE LET mid == i \div 2
             upper == ConnectionLoop(ss, SubSeq(conns, mid + 1, i), i - mid, {})
             lower == ConnectionLoop(ss, SubSeq(conns, 1, mid), mid, {})
         IN  [ list |-> lower.list \o upper.list \o SubSeq(conns, i + 1, Len(conns)),
               read |-> read \cup upper.read \cup lower.read ]

\* the body of the second stars.forEach, as far as it writes the star
TwinkleStar(star) ==
    LET opacity == star.opacity + star.twinkleSpeed
    IN  [ star EXCEPT !.opacity = opacity,
                      !.twinkleSpeed = IF opacity > 1000 \/ opacity < 200
                                       THEN -star.twinkleSpeed
                                       ELSE star.twinkleSpeed ]

TwinkleStars(ss) ==
    [ ss EXCEPT !.at = [i \in DOMAIN ss.at |-> TwinkleStar(ss.at[i])] ]

\* candidate draws of one spawn.  A run of 20 draws acts as the sequence of
\* its first occurrences, and its result (the nearest qualifying index drawn,
\* or none) is also the result of drawing that index alone: sequences of one
\* index give every result, sequences of two also compare two candidates.
CandidateDraws(S) ==
    { << a >> : a \in S } \cup { << a, b >> : a \in S, b \in S }

NoSpawnDraw == [ gate |-> 5000, startIdx |-> 0, cands |-> << >>, rmax |-> 0 ]

\* the random draws of the spawn step
SpawnDraws(ss, conns, spawning, lifeDraws) ==
    IF spawning /\ ss.length > 0
    THEN {NoSpawnDraw} \cup
         { [ gate |-> 0, startIdx |-> st, cands |-> cs, rmax |-> rm ]
           : st \in Followed(ss.length), cs \in CandidateDraws(Followed(ss.length)),
             rm \in lifeDraws }
    ELSE {NoSpawnDraw}

\* animate returning early: no canvas element, or getContext('2d') gave null
AnimateSkip ==
    /\ ~(canvasRef /\ context2d)
    /\ \E id \in rafQueue : rafQueue' = rafQueue \ {id}
    /\ derefs' = {}
    /\ UNCHANGED << phase, canvasRef, containerRef, context2d, canvas, listeners, rafNext,
                    requestRef, stars, connections, planetPoints, mouse, lookAt,
                    zoom, targetZoom, lastTouchDist, rotation, connSeq, events, conn64 >>

\* animate running a whole frame; it runs while rotation < limit, and draws a
\* spawn while rotation < spawnLimit
AnimateFrame(limit, spawnLimit, lifeDraws) ==
    /\ rotation < limit
    /\ canvasRef /\ context2d
    /\ \E id \in rafQueue :
       \E rec \in RecycleDraws :
          LET drifted == DriftStars(stars, canvas, rec)
              spawns == { SpawnConnection(drifted, connections, d, connSeq) :
                            d \in SpawnDraws(drifted, connections, rotation < spawnLimit,
                                            lifeDraws) }
          IN  \E spawned \in spawns :
                 LET looped == ConnectionLoop(drifted, spawned, Len(spawned), {})
                 IN  /\ zoom' = SmoothZoom(zoom, targetZoom)
                     /\ rotation' = rotation + 1
                     /\ lookAt' = SmoothLookAt(lookAt, mouse, canvas)
                     /\ connSeq' = connSeq + (Len(spawned) - Len(connections))
                     /\ connections' = looped.list
                     /\ derefs' = looped.read
                     /\ stars' = TwinkleStars(drifted)
                     /\ RequestFrame(rafQueue \ {id})
    /\ UNCHANGED << phase, canvasRef, containerRef, context2d, canvas, listeners,
                    planetPoints, mouse, targetZoom, lastTouchDist, events, conn64 >>

(* --------------------------------------------------------- specifications *)
Animate == AnimateFrame(MaxFrames, MaxFrames, MidLifeDraws)

Next ==
    \/ Mount
    \/ Unmount
    \/ Resize
    \/ MouseMove
    \/ Wheel
    \/ TouchStart
    \/ TouchMove
    \/ TouchEnd
    \/ RefChange
    \/ AnimateSkip
    \/ Animate

Spec == Init /\ [][Next]_vars

\* the connection-lifetime specification: frames only, run long enough for
\* connections to grow, hold, fade and be removed
LifeAnimate == AnimateFrame(MaxLifeFrames, LifeSpawnFrames, MaxLifeDraws)

LifeNext == Mount \/ LifeAnimate

LifeSpec == Init /\ [][LifeNext]_vars

\* the same with the frame loop kept running: every whole frame ends by
\* requesting the next one, and the browser calls back what was requested
LifeFairSpec == LifeSpec /\ WF_vars(LifeAnimate)

\* the star-drift specification: frames only, run long enough for a star that
\* was the start of a connection to drift to the recycling depth; the frames
\* that draw a spawn are those in which the nearest followed stars come down
\* to the spawn depth of 0.5
DriftAnimate ==
    IF rotation < FirstSpawnFrame
    THEN AnimateFrame(MaxDriftFrames, 0, LongLifeDraws)
    ELSE AnimateFrame(MaxDriftFrames, FirstSpawnFrame + DriftSpawnFrames,
                      MaxLifeDraws \cup LongLifeDraws)

DriftNext == Mount \/ DriftAnimate

DriftSpec == Init /\ [][DriftNext]_vars

\* the list-filling specification: frames only, in which the spawn draws
\* create a connection in every frame that finds the star at index 599
\* between the depths 0.5 and 3.0, from that star to the star at index 0 and
\* of the longest life, and in no other frame
FillAnimate ==
    /\ AnimateFrame(MaxFillFrames, MaxFillFrames, LongLifeDraws)
    /\ LET z == stars'.at[599].z
            n == Len(connections')
       IN  IF z > 500 /\ z < 3000
           THEN /\ connSeq' = connSeq + 1
                /\ n > 0
                /\ connections'[n].id = connSeq'
                /\ connections'[n].startIdx = 599
                /\ connections'[n].endIdx = 0
           ELSE connSeq' = connSeq

FillNext == Mount \/ FillAnimate

FillSpec == Init /\ [][FillNext]_vars

\* the growing branch of the connection update in double precision:
\* connectionsRef.current.push({ life: 0, state: 'growing', maxLife }) ...
Push64 ==
    /\ conn64.state = "none"
    /\ \E maxLife \in MaxLife64 :
          conn64' = [ life |-> Zero64, maxLife |-> maxLife, state |-> "growing", steps |-> 0 ]
    /\ UNCHANGED << phase, canvasRef, containerRef, context2d, canvas, listeners,
                    rafQueue, rafNext, requestRef, stars, connections, planetPoints,
                    mouse, lookAt, zoom, targetZoom, lastTouchDist, rotation,
                    connSeq, derefs, events >>

\* ... and conn.life += 0.04; if (conn.life >= conn.maxLife) conn.state = 'holding'
Grow64 ==
    /\ conn64.state = "growing"
    /\ LET life == Add64(conn64.life, Growth64)
       IN  conn64' = [ conn64 EXCEPT !.life = life,
                                     !.state = IF Less64(life, conn64.maxLife)
                                               THEN "growing" ELSE "holding",
                                     !.steps = conn64.steps + 1 ]
    /\ UNCHANGED << phase, canvasRef, containerRef, context2d, canvas, listeners,
                    rafQueue, rafNext, requestRef, stars, connections, planetPoints,
                    mouse, lookAt, zoom, targetZoom, lastTouchDist, rotation,
                    connSeq, derefs, events >>

GrowNext == Push64 \/ Grow64

GrowSpec == Init /\ [][GrowNext]_vars

(* ----------------------------------------------------------------- claims *)
FollowedStars == DOMAIN stars.at

\* a step in which animate ran a whole frame
FrameStep == rotation' = rotation + 1

\* a step in which one of the five input handlers ran
InputStep == MouseMove \/ Wheel \/ TouchStart \/ TouchMove \/ TouchEnd

C2_SkippedFrameReschedules == [][AnimateSkip => rafQueue' # {}]_vars

\* C3 as stated: every star's depth is above 0.2 and at most 4.0 in every
\* reachable state, the state right after initialization included.
C3_DepthAboveNearPlane ==
    \A i \in FollowedStars : stars.at[i].z > 200 /\ stars.at[i].z <= 4000

\* C3 amended: every star's depth is in [0.2, 4.0] in every reachable state and
\* in (0.2, 4.0] after every frame; a frame whose drift takes a star's depth to
\* 0.2 or below leaves it at exactly 4.0, with the opacity the twinkle update
\* of that frame makes of 0 (the star's twinkle speed); no other star is moved
\* to 4.0.
C3_DepthRange ==
    /\ [](\A i \in FollowedStars : stars.at[i].z >= 200 /\ stars.at[i].z <= 4000)
    /\ [][FrameStep =>
            \A i \in FollowedStars :
               /\ stars'.at[i].z > 200
               /\ IF stars.at[i].z - 2 <= 200
                  THEN /\ stars'.at[i].z = 4000
                       /\ stars'.at[i].opacity = stars.at[i].twinkleSpeed
                  ELSE stars'.at[i].z = stars.at[i].z - 2]_vars

\* a star that a frame recycled: 4.0 is no depth initStars gives
C3_Witness ==
    \E i \in FollowedStars :
       /\ stars.at[i].z = 4000
       /\ stars.at[i].opacity = -stars.at[i].twinkleSpeed

Rank(state) == CASE state = "growing" -> 1 [] state = "holding" -> 2 [] state = "fading" -> 3

ConnIds(conns) == { conns[k].id : k \in DOMAIN conns }

\* C4: in every frame a connection's life rises while it is growing and does
\* not rise while it is holding or fading; its state stays or moves one step
\* along growing, holding, fading; it leaves the list in the frame that takes
\* its life to 0 or below and in no other; once gone it never comes back.
C4_ConnectionLifecycle ==
    [][FrameStep =>
         /\ \A k \in DOMAIN connections' : connections'[k].life > 0
         /\ \A k \in DOMAIN connections' :
               \/ connections'[k].id \in ConnIds(connections)
               \/ connections'[k].id = connSeq + 1
         /\ \A j, k \in DOMAIN connections' :
               j # k => connections'[j].id # connections'[k].id
         /\ \A k \in DOMAIN connections :
               LET c == connections[k]
               IN  /\ (c.id \notin ConnIds(connections'))
                         <=> (c.state = "fading" /\ c.life - 15 <= 0)
                   /\ \A j \in DOMAIN connections' :
                         connections'[j].id = c.id =>
                            LET c2 == connections'[j]
                            IN  /\ c.state = "growing" => c2.life > c.life
                                /\ c.state # "growing" => c2.life <= c.life
                                /\ Rank(c2.state) \in {Rank(c.state), Rank(c.state) + 1}
                                /\ c2.maxLife = c.maxLife
       ]_vars

\* of two connections the older one has faded out and been removed while the
\* younger one is still fading
C4_Witness ==
    /\ connSeq = 2
    /\ Len(connections) = 1
    /\ connections[1].id = 2
    /\ connections[1].state = "fading"

\* C5: the target zoom is within [0.5, 5.0] in every reachable state.
C5_TargetZoomClamped == targetZoom >= 500000 /\ targetZoom <= 5000000

\* a wheel event large enough to pass the lower end has been clamped to it,
\* with a two-finger distance recorded
C5_Witness == targetZoom = 500000 /\ lastTouchDist # Null

\* C6: once the cleanup has run no handler is registered and no animate
\* callback is pending, and from then on no frame runs and nothing changes.
C6_UnmountStopsEverything ==
    /\ [](phase = "unmounted" => listeners = {} /\ rafQueue = {})
    /\ [][phase = "unmounted" =>
            /\ ~AnimateSkip
            /\ ~FrameStep
            /\ UNCHANGED << scene, mouse, targetZoom, lastTouchDist, rafQueue >>]_vars

\* the cleanup ran after two frames
C6_Witness == phase = "unmounted" /\ rotation = 2 /\ rafNext = 4

\* C7: once mounted, the star array holds clamp(floor(W*H/350), 600, 2500)
\* stars for the W x H the canvas was last sized to: 2285 for 1000x800, 600
\* for 100x100, 2500 for 3000x3000; no frame changes the count.
C7_StarCount ==
    phase # "constructed" =>
       LET n == (canvas.width * canvas.height) \div 350
           clamped == IF n < 600 THEN 600 ELSE IF n > 2500 THEN 2500 ELSE n
       IN  /\ stars.length = clamped
           /\ canvas = [width |-> 1000, height |-> 800] => stars.length = 2285
           /\ canvas = [width |-> 100, height |-> 100] => stars.length = 600
           /\ canvas = [width |-> 3000, height |-> 3000] => stars.length = 2500

\* the 1000x800 surface after two frames, one of which recycled a star
C7_Witness ==
    /\ canvas = [width |-> 1000, height |-> 800]
    /\ stars.length = 2285
    /\ rotation = 2
    /\ \E i \in FollowedStars : stars.at[i].z = 3998

\* C8: a pointer-move, wheel, touch-start, touch-move or touch-end handler
\* leaves the star array, the planet points, the connection list, the
\* smoothed zoom, the look-at offset and the rotation angle as they were.
C8_InputsLeaveScene ==
    [][InputStep =>
         UNCHANGED << stars, planetPoints, connections, zoom, lookAt, rotation >>]_vars

\* a wheel event handled after a frame: the target moved, the smoothed zoom
\* is still what the frame left
C8_Witness == rotation = 1 /\ targetZoom = 1100000 /\ zoom = 1000000

SqDist(touches) ==
    (touches[1][1] - touches[2][1]) * (touches[1][1] - touches[2][1])
        + (touches[1][2] - touches[2][2]) * (touches[1][2] - touches[2][2])

\* C9: a touch-start with two points records their distance; a touch-move
\* with two points and a recorded distance moves the target zoom by (new
\* distance - recorded distance) * 0.008, clamped to [0.5, 5.0], and records
\* the new distance; a touch-end clears the record; a touch-move with two
\* points and no record changes neither the target zoom nor the record.
C9_PinchProtocol ==
    [][/\ TouchEnd => lastTouchDist' = Null
       /\ \A t \in Touches :
             Len(t) = 2 =>
                /\ Delivered("touchstart") /\ InputFrame /\ handleTouchStart(t) =>
                      /\ lastTouchDist' >= 0
                      /\ lastTouchDist' * lastTouchDist' = SqDist(t)
                      /\ targetZoom' = targetZoom
                /\ Delivered("touchmove") /\ InputFrame /\ handleTouchMove(t)
                      /\ lastTouchDist # Null =>
                      LET moved == targetZoom + (lastTouchDist' - lastTouchDist) * 8000
                      IN  /\ lastTouchDist' >= 0
                          /\ lastTouchDist' * lastTouchDist' = SqDist(t)
                          /\ targetZoom' = IF moved < 500000 THEN 500000
                                           ELSE IF moved > 5000000 THEN 5000000
                                           ELSE moved
                /\ Delivered("touchmove") /\ InputFrame /\ handleTouchMove(t)
                      /\ lastTouchDist = Null =>
                      UNCHANGED << targetZoom, lastTouchDist >>
      ]_vars

\* a pinch from distance 0 to distance 50 has moved the target from 1.0 to 1.4
C9_Witness == lastTouchDist = 50 /\ targetZoom = 1400000

\* C10: once mounted, the planet point array holds exactly 1400 points.
C10_PlanetPointCount == phase # "constructed" => planetPoints.length = 1400

\* the points generated for the 100x100 surface by a resize that followed a
\* frame on another surface
C10_Witness ==
    /\ planetPoints.length = 1400
    /\ planetPoints.radius = 300
    /\ rotation = 2
    /\ \E i \in FollowedStars : stars.at[i].z = 578

C12_WheelSetsTarget ==
    [][\A deltaY \in WheelDeltas :
          Delivered("wheel") /\ InputFrame /\ handleWheel(deltaY) =>
             LET moved == targetZoom - deltaY * 1000
             IN  /\ targetZoom' = IF moved < 500000 THEN 500000
                                  ELSE IF moved > 5000000 THEN 5000000
                                  ELSE moved
                 /\ deltaY = -100 /\ targetZoom = 1000000 => targetZoom' = 1100000
      ]_vars

\* two wheel events of deltaY = -100 from the default target zoom
C12_Witness == targetZoom = 1200000 /\ events = 2 /\ rotation = 0

\* frames a star recycled to z = 4.0 runs through before the drift takes it
\* to z <= 0.2 and it is recycled again
FramesToRecycle == (4000 - 200) \div driftSpeed

\* up to n twinkle updates of a star, stopping once its opacity is at least
\* 0.2: the star they leave, and whether the opacity got there
RECURSIVE Twinkles(_, _)
Twinkles(star, n) ==
    IF star.opacity >= 200
    THEN [ star |-> star, seen |-> TRUE ]
    ELSE IF n = 0
    THEN [ star |-> star, seen |-> FALSE ]
    ELSE IF n = 1
    THEN LET next == TwinkleStar(star)
         IN  [ star |-> next, seen |-> next.opacity >= 200 ]
    ELSE LET first == Twinkles(star, n \div 2)
         IN  IF first.seen THEN first ELSE Twinkles(first.star, n - n \div 2)

FadesIn(star, n) == Twinkles(star, n).seen

\* C13: a star recycled to the far plane in the last frame (z = 4.0, opacity
\* reset to 0 and then updated once by that frame's twinkle) has its opacity
\* brought to 0.2 or above by the twinkle updates of the frames that follow,
\* before it is recycled again.
C13_RecycledStarFadesIn ==
    \A i \in FollowedStars :
       stars.at[i].z = 4000 => FadesIn(stars.at[i], FramesToRecycle - 1)

\* C14: whenever a frame's twinkle update leaves a star's opacity above 1 or
\* below 0.2, the next twinkle update of that star moves the opacity back
\* toward [0.2, 1]: down from above 1, up from below 0.2.
C14_TwinkleBouncesBack ==
    [][FrameStep =>
         \A i \in DOMAIN stars'.at :
            LET star == stars'.at[i]
            IN  /\ star.opacity > 1000 => TwinkleStar(star).opacity < star.opacity
                /\ star.opacity < 200 => TwinkleStar(star).opacity > star.opacity
      ]_vars

\* C15: with the frame loop running, every connection is eventually out of
\* the list for good (a connection not yet created is not in the list, and a
\* created one comes to the frame that removes it).
C15_ConnectionsEnd ==
    \A id \in 1..LifeSpawnFrames : <>[](id \notin ConnIds(connections))

\* two connections were created, the second with maxLife just under 1.0, and
\* both have run through their lives and left the list
C15_Witness ==
    /\ connSeq = 2
    /\ connections = << >>
    /\ rotation = 121

C17_SpawnConditions ==
    [][FrameStep =>
         LET added == { j \in DOMAIN connections' : connections'[j].id > connSeq }
         IN  /\ Cardinality(added) <= 1
             /\ Len(connections') <= Len(connections) + 1
             /\ connSeq' = connSeq + Cardinality(added)
             /\ \A j \in added :
                   LET c == connections'[j]
                       s1 == stars'.at[c.startIdx]
                       s2 == stars'.at[c.endIdx]
                       dx == s1.x - s2.x
                       dy == s1.y - s2.y
                   IN  /\ c.life = 0 + 40
                       /\ c.state = "growing"
                       /\ c.maxLife >= 600 /\ c.maxLife <= 1000
                       /\ c.startIdx # c.endIdx
                       /\ c.startIdx >= 0 /\ c.startIdx < stars'.length
                       /\ c.endIdx >= 0 /\ c.endIdx < stars'.length
                       /\ s1.z > 500 /\ s1.z < 3000
                       /\ s1.z - s2.z < 500 /\ s2.z - s1.z < 500
                       /\ dx * dx + dy * dy < 50 * s1.z
      ]_vars

\* on the 2500-star surface, where two followed stars sit at the far plane
\* and two in the middle field, the second frame has added a second connection
C17_Witness ==
    /\ stars.length = 2500
    /\ rotation = 2
    /\ Len(connections) = 2
    /\ connections[2].id = 2
    /\ connections[2].life = 40
    /\ connections[2].startIdx = 1
    /\ connections[2].endIdx = 0

\* C18: after every step a connection that is still in the list has a life
\* within [0, 1]; for the growing branch, in the arithmetic of the program's
\* numbers: no growth step, the one that reaches maxLife included, leaves a
\* life above 1 or below 0.
C18_LifeWithinUnit ==
    conn64.state # "none" =>
       /\ ~Less64(conn64.life, Zero64)
       /\ ~Less64(One64, conn64.life)

\* C19: a resize handled while canvas and container are attached sizes the
\* canvas to the container, puts a newly generated star array and planet point
\* array in place, empties the connection list and moves the pointer to the
\* midpoint of the surface; it leaves zoom, target zoom, rotation, look-at
\* offset and recorded touch distance as they were.  A resize handled while
\* one of the two is missing changes nothing.
C19_ResizeEffect ==
    [][Resize =>
         IF canvasRef /\ containerRef
         THEN /\ << canvas'.width, canvas'.height >> \in Surfaces
              /\ \E seed \in Seeds :
                    stars' = initStars(canvas'.width, canvas'.height, seed)
              /\ \A i \in DOMAIN stars'.at : stars'.at[i].z < 4000
              /\ planetPoints'.length = 1400
              /\ planetPoints'.radius =
                    3 * (IF canvas'.width < canvas'.height
                         THEN canvas'.width ELSE canvas'.height)
              /\ connections' = << >>
              /\ mouse'.x * 2 = canvas'.width
              /\ mouse'.y * 2 = canvas'.height
              /\ UNCHANGED << zoom, targetZoom, rotation, lookAt, lastTouchDist >>
         ELSE UNCHANGED << canvas, stars, planetPoints, connections, mouse, zoom,
                           targetZoom, rotation, lookAt, lastTouchDist, phase,
                           listeners, rafQueue, requestRef >>
      ]_vars

\* a resize to 100x100 after a wheel event and a frame that had created a
\* connection and moved the stars: the list is empty, the stars are new, the
\* target zoom is the wheel's
C19_Witness ==
    /\ rotation = 1
    /\ connSeq = 1
    /\ connections = << >>
    /\ canvas = [width |-> 100, height |-> 100]
    /\ mouse = [x |-> 50, y |-> 50]
    /\ stars.at[0].z = 580
    /\ targetZoom = 1100000
    /\ events = 2

\* C20: the smoothed zoom is within [0.5, 5.0] in every reachable state, and
\* the zoom a frame leaves lies between the zoom before the frame and the
\* target zoom, both included.
C20_ZoomBetween ==
    /\ [](zoom >= 500000 /\ zoom <= 5000000)
    /\ [][FrameStep =>
            \/ zoom <= zoom' /\ zoom' <= targetZoom
            \/ targetZoom <= zoom' /\ zoom' <= zoom]_vars

\* a wheel event sent the target to 0.5 and a frame followed it, then a wheel
\* event sent the target to 5.0 and a frame turned the zoom around
C20_Witness ==
    /\ zoom = 1355000
    /\ targetZoom = 5000000
    /\ rotation = 2
    /\ events = 2

\* C21: while the component is mounted at most one frame request is pending
\* and requestRef holds its identifier, and the cleanup leaves no request
\* pending.
C21_SinglePendingFrame ==
    /\ [](phase = "mounted" =>
            Cardinality(rafQueue) <= 1 /\ rafQueue \subseteq {requestRef})
    /\ [][phase = "mounted" /\ phase' = "unmounted" =>
            rafQueue' = {}]_vars

\* two whole frames have run and the request of the second is the one pending
C21_Witness ==
    /\ phase = "mounted"
    /\ rotation = 2
    /\ requestRef = 3
    /\ rafQueue = {3}

\* C22: a frame recycles the start star of no connection that is in the list
\* when the frame begins (the star only drifts by driftSpeed), and the start
\* star of every connection the frame leaves in the list is deeper than 0.2.
C22_StartStarNotRecycled ==
    [][FrameStep =>
         /\ \A k \in 1..Len(connections) :
               LET i == connections[k].startIdx
               IN  stars'.at[i].z = stars.at[i].z - driftSpeed
         /\ \A k \in 1..Len(connections') :
               stars'.at[connections'[k].startIdx].z > 200
      ]_vars

\* a connection created when its start star was at depth 0.502 is in the
\* list for the last frame of the longest life, its start star at 0.260
C22_Witness ==
    /\ rotation = 160
    /\ Len(connections) = 1
    /\ connections[1].startIdx = 0
    /\ connections[1].maxLife = 961
    /\ connections[1].state = "fading"
    /\ connections[1].life = 15
    /\ stars.at[0].z = 260

\* the connection after up to n frames of the connection loop, and the steps
\* it took: a connection whose life is at 0 or below is spliced and stepped
\* no further
RECURSIVE StepsOf(_, _)
StepsOf(conn, n) ==
    IF n = 1
    THEN [ conn |-> StepConn(conn), steps |-> 1 ]
    ELSE LET first == StepsOf(conn, n \div 2)
         IN  IF first.conn.life <= 0
             THEN first
             ELSE LET rest == StepsOf(first.conn, n - n \div 2)
                  IN  [ conn |-> rest.conn, steps |-> first.steps + rest.steps ]

\* the frames a connection of this maxLife is stepped in, the one that splices
\* it included; a life of at most 1.04 that loses 0.005 or more per frame
\* after 25 frames at most is over within 256 frames
LifeSteps(maxLife) ==
    StepsOf([ life |-> 0, state |-> "growing", maxLife |-> maxLife ], 256).steps

\* the longest life in frames, over every maxLife of 0.6 up to 1.0
LongestLife ==
    LET lives == { LifeSteps(m) : m \in 600..999 }
    IN  CHOOSE n \in lives : \A k \in lives : k <= n

\* C23: the list never holds more connections than the longest life has
\* frames, and a frame leaves it at most one connection longer.
C23_ConnectionsBounded ==
    /\ [](Len(connections) <= LongestLife)
    /\ [][FrameStep => Len(connections') <= Len(connections) + 1]_vars

\* every frame of the longest life created a connection: the list is as long
\* as a frame can leave it, the oldest connection in its last listed frame
C23_Witness ==
    /\ Len(connections) = LongestLife - 1
    /\ connections[1].life = 15
    /\ connections[1].state = "fading"
    /\ connections[Len(connections)].life = 40
====
